---- MODULE Spec2Model ----
(***************************************************************************)
(* Password strength checker (main.py): the detailed evaluation object    *)
(* PasswordStrengthChecker, the quick classifier simple_strength_check     *)
(* and the loop of main() that drives both.                                *)
(*                                                                         *)
(* A character is a one-element string; the four non-ASCII characters      *)
(* used are written by their code points ("U+00E9" is e-acute, "U+00C9"    *)
(* is E-acute, "U+0663" is ARABIC-INDIC DIGIT THREE, a decimal digit, and  *)
(* "U+00B2" is SUPERSCRIPT TWO, a digit that is no decimal digit); the     *)
(* ASCII grave accent, which the lexer rejects inside a string, is         *)
(* "U+0060".  A Python str is a sequence of characters.                    *)
(***************************************************************************)
EXTENDS Integers, Sequences, FiniteSets, TLC

VARIABLES
    file,              \* common_passwords.txt as open() finds it
    pc,                \* "idle" | "ready" (a checker exists) | "crashed"
    password,          \* self.password
    length,            \* self.length
    score,             \* self.score
    feedback,          \* self.feedback
    common_passwords,  \* self.common_passwords
    results,           \* what the evaluate() calls on this checker returned
    quick,             \* what simple_strength_check(password) returned
    exc                \* the exception that ended the program, if any

vars == <<file, pc, password, length, score, feedback, common_passwords,
          results, quick, exc>>

(***************************************************************************)
(* Bounds of the model.                                                    *)
(***************************************************************************)
MaxCore == 2       \* passwords start with any string of up to MaxCore characters
MaxEvals == 2      \* evaluate() calls made on one checker object
LongLen == 201     \* the longest padded password

(***************************************************************************)
(* Characters and Python's str predicates.                                 *)
(***************************************************************************)
LowerLetters ==
    <<"a","b","c","d","e","f","g","h","i","j","k","l","m",
      "n","o","p","q","r","s","t","u","v","w","x","y","z">>

UpperLetters ==
    <<"A","B","C","D","E","F","G","H","I","J","K","L","M",
      "N","O","P","Q","R","S","T","U","V","W","X","Y","Z">>

Range(s) == {s[i] : i \in 1..Len(s)}

AsciiLower == Range(LowerLetters)

AsciiUpper == Range(UpperLetters)

AsciiDigit == {"0","1","2","3","4","5","6","7","8","9"}

\* string.punctuation
Punctuation ==
    {"!","\"","#","$","%","&","'","(",")","*","+",",","-",".","/",":",
     ";","<","=",">","?","@","[","\\","]","^","_","U+0060","{","|","}","~"}

\* the character class of the last re.search of simple_strength_check
QuickSpecial ==
    {"!","@","#","$","%","^","&","*","(",")",",",".","?","\"",":",
     "{","}","|","<",">"}

Whitespace == {" ", "\t", "\n"}

NonAscii == {"U+00E9", "U+00C9", "U+0663", "U+00B2"}

Chars == AsciiLower \cup AsciiUpper \cup AsciiDigit \cup Punctuation
            \cup Whitespace \cup NonAscii

\* str.islower() of one character: Unicode-aware
islower(c) == c \in AsciiLower \cup {"U+00E9"}

\* str.isupper() of one character: Unicode-aware
isupper(c) == c \in AsciiUpper \cup {"U+00C9"}

\* str.isdigit() of one character: Unicode-aware
isdigit(c) == c \in AsciiDigit \cup {"U+0663", "U+00B2"}

\* \d of a str pattern: any Unicode decimal digit (category Nd)
re_digit(c) == c \in AsciiDigit \cup {"U+0663"}

lower_char ==
    [c \in Chars |->
        IF c \in AsciiUpper
        THEN LowerLetters[CHOOSE i \in 1..26 : UpperLetters[i] = c]
        ELSE IF c = "U+00C9" THEN "U+00E9" ELSE c]

\* str.lower()
lower(s) == [i \in 1..Len(s) |-> lower_char[s[i]]]

RECURSIVE lstrip(_)
lstrip(s) == IF s # <<>> /\ Head(s) \in Whitespace THEN lstrip(Tail(s)) ELSE s

RECURSIVE rstrip(_)
rstrip(s) ==
    IF s # <<>> /\ s[Len(s)] \in Whitespace
    THEN rstrip(SubSeq(s, 1, Len(s) - 1)) ELSE s

\* str.strip()
strip(s) == rstrip(lstrip(s))

\* pat in s
contains(s, pat) ==
    \E i \in 1..(Len(s) - Len(pat) + 1) : SubSeq(s, i, i + Len(pat) - 1) = pat

Min(a, b) == IF a < b THEN a ELSE b


(***************************************************************************)
(* The common-password resource and load_common_passwords.                 *)
(***************************************************************************)
Fallback ==
    { <<"p","a","s","s","w","o","r","d">>, <<"1","2","3","4","5","6">>,
      <<"q","w","e","r","t","y">>, <<"a","b","c","1","2","3">>,
      <<"a","d","m","i","n">>, <<"w","e","l","c","o","m","e">> }

\* the lines of a readable common_passwords.txt, as iterating the file yields them
WordList ==
    << <<"P","a","s","s","w","o","r","d","\n">>,
       <<" ","a","d","m","i","n"," ","\n">>,
       <<"a","1","\n">>,
       <<"A","!","\n">>,
       <<"q","w","e","r","t","y">> >>

\* what open('common_passwords.txt', 'r') can find
FileStates ==
    { [kind |-> "missing", lines |-> <<>>],
      [kind |-> "unreadable", lines |-> <<>>],
      [kind |-> "readable", lines |-> WordList] }

\* the exception open() raises, "none" when it returns a file object
open_raises(f) ==
    CASE f.kind = "missing" -> "FileNotFoundError"
      [] f.kind = "unreadable" -> "PermissionError"
      [] OTHER -> "none"

\* load_common_passwords: [raised |-> the exception that propagates, ret |-> the set]
load_common_passwords(f) ==
    LET e == open_raises(f)
    IN  IF e = "none"
        THEN [raised |-> "none", ret |-> {strip(f.lines[i]) : i \in 1..Len(f.lines)}]
        ELSE IF e = "FileNotFoundError"
        THEN [raised |-> "none", ret |-> Fallback]
        ELSE [raised |-> e, ret |-> {}]

(***************************************************************************)
(* The checks.  Each method appends to self.feedback and returns a number: *)
(* [ret |-> the number returned, fb |-> the lines appended].               *)
(***************************************************************************)
FbTooShort == "Password is too short (min 8 characters)."
FbOkay == "Length is okay but could be longer."
FbGood == "Good password length."
FbExcellent == "Excellent password length."
FbMix == "Use a mix of upper, lower, digits, and special chars."
FbPattern == "Avoid common patterns like '123', 'abc', 'qwerty'."
FbCommon == "This password is too common!"

\* check_length with every < written <=
check_length_le(len) ==
    IF len <= 8 THEN [ret |-> 0, fb |-> <<FbTooShort>>]
    ELSE IF len <= 12 THEN [ret |-> 2, fb |-> <<FbOkay>>]
    ELSE IF len <= 16 THEN [ret |-> 3, fb |-> <<FbGood>>]
    ELSE [ret |-> 4, fb |-> <<FbExcellent>>]

check_length(len) ==
    IF len < 8 THEN [ret |-> 0, fb |-> <<FbTooShort>>]
    ELSE IF len < 12 THEN [ret |-> 2, fb |-> <<FbOkay>>]
    ELSE IF len < 16 THEN [ret |-> 3, fb |-> <<FbGood>>]
    ELSE [ret |-> 4, fb |-> <<FbExcellent>>]

Bool2Int(b) == IF b THEN 1 ELSE 0

any_islower(p) == \E i \in 1..Len(p) : islower(p[i])
any_isupper(p) == \E i \in 1..Len(p) : isupper(p[i])
any_isdigit(p) == \E i \in 1..Len(p) : isdigit(p[i])
any_punctuation(p) == \E i \in 1..Len(p) : p[i] \in Punctuation

check_character_types(p) ==
    LET types == Bool2Int(any_islower(p)) + Bool2Int(any_isupper(p))
                   + Bool2Int(any_isdigit(p)) + Bool2Int(any_punctuation(p))
    IN  [ret |-> types, fb |-> IF types < 3 THEN <<FbMix>> ELSE <<>>]

bad_patterns ==
    { <<"1","2","3">>, <<"a","b","c">>, <<"q","w","e","r","t","y">> }

check_common_patterns(p) ==
    LET lowered == lower(p)
    IN  IF \E pat \in bad_patterns : contains(lowered, pat)
        THEN [ret |-> -2, fb |-> <<FbPattern>>]
        ELSE [ret |-> 0, fb |-> <<>>]

check_common_password(p, common) ==
    IF lower(p) \in common
    THEN [ret |-> -2, fb |-> <<FbCommon>>]
    ELSE [ret |-> 0, fb |-> <<>>]

(***************************************************************************)
(* Entropy.  calculate_entropy returns length * sqrt(charset_size), a      *)
(* float that is irrational for most inputs; it is carried exactly, as its *)
(* square length^2 * charset_size.  Every later use of the float is then a *)
(* comparison or a rounding of a square root of an integer.                *)
(***************************************************************************)
charset_size(p) ==
    (IF any_islower(p) THEN 26 ELSE 0) + (IF any_isupper(p) THEN 26 ELSE 0)
      + (IF any_isdigit(p) THEN 10 ELSE 0) + (IF any_punctuation(p) THEN 32 ELSE 0)

\* the square of what calculate_entropy returns
calculate_entropy(p, len) == len * len * charset_size(p)

RECURSIVE isqrt_between(_, _, _)
isqrt_between(n, lo, hi) ==
    IF lo = hi THEN lo
    ELSE LET mid == (lo + hi + 1) \div 2
         IN  IF mid * mid <= n THEN isqrt_between(n, mid, hi)
             ELSE isqrt_between(n, lo, mid - 1)

\* floor(sqrt(n)), for 0 <= n < 2^31
isqrt(n) == isqrt_between(n, 0, 46340)

\* int(entropy / 20)
int_entropy_div_20(esq) == isqrt(esq) \div 20

\* round(entropy, 1), in tenths of a bit
round_entropy_1(esq) == (isqrt(400 * esq) + 1) \div 2

\* 2 ** entropy raises OverflowError when the result is no finite float: entropy >= 1024
pow_overflows(esq) == esq >= 1024 * 1024

(***************************************************************************)
(* estimate_crack_time.  seconds = 2^(entropy-1) / 1e12; seconds < 60 iff  *)
(* entropy < log2(1.2e14) = 46.77.., whose square is 2187.4.., and likewise*)
(* 3600 (2774.8..) and 86400 (3278.9..).  The count in "<n> minutes" is a  *)
(* function of the entropy alone and can have hundreds of digits: it is    *)
(* carried as the entropy it is computed from.                             *)
(***************************************************************************)
estimate_crack_time(esq) ==
    IF esq <= 2187 THEN [unit |-> "less than a minute", of |-> 0]
    ELSE IF esq <= 2774 THEN [unit |-> "minutes", of |-> esq]
    ELSE IF esq <= 3278 THEN [unit |-> "hours", of |-> esq]
    ELSE [unit |-> "days", of |-> esq]

rating == <<"Very Weak", "Weak", "Moderate", "Strong", "Very Strong">>

\* rating[i] of a Python list: a negative index counts from the end
list_index_raises(i) == i < -5 \/ i >= 5
list_index(i) == IF i < 0 THEN rating[5 + i + 1] ELSE rating[i + 1]

\* the index evaluate() computes: min(self.score // 3, 4)
rating_index(sc) == Min(sc \div 3, 4)

(***************************************************************************)
(* simple_strength_check                                                   *)
(***************************************************************************)
\* simple_strength_check without its [A-Z] test
simple_strength_check_no_upper(p) ==
    IF Len(p) < 8 THEN "Weak"
    ELSE IF ~ \E i \in 1..Len(p) : p[i] \in AsciiLower THEN "Weak"
    ELSE IF ~ \E i \in 1..Len(p) : re_digit(p[i]) THEN "Weak"
    ELSE IF ~ \E i \in 1..Len(p) : p[i] \in QuickSpecial THEN "Weak"
    ELSE IF Len(p) < 12 THEN "Moderate"
    ELSE "Strong"

simple_strength_check(p) ==
    IF Len(p) < 8 THEN "Weak"
    ELSE IF ~ \E i \in 1..Len(p) : p[i] \in AsciiLower THEN "Weak"
    ELSE IF ~ \E i \in 1..Len(p) : p[i] \in AsciiUpper THEN "Weak"
    ELSE IF ~ \E i \in 1..Len(p) : re_digit(p[i]) THEN "Weak"
    ELSE IF ~ \E i \in 1..Len(p) : p[i] \in QuickSpecial THEN "Weak"
    ELSE IF Len(p) < 12 THEN "Moderate"
    ELSE "Strong"


(***************************************************************************)
(* The passwords typed at the prompt: every string of up to MaxCore        *)
(* characters of Alphabet and the strings of Literals, each as it is and   *)
(* padded with a fill character to the lengths on both sides of the        *)
(* thresholds of check_length (8, 12, 16), and a few padded to the two     *)
(* lengths on both sides of the float range (200 lowercase letters give    *)
(* 1019.8 bits, 201 give 1024.9).                                          *)
(***************************************************************************)
Alphabet == {"a", "A", "1", "!", "-", "U+00E9", "U+00C9", "U+0663", " "}

Literals ==
    { <<"a","b","c">>, <<"1","2","3","4","5","6">>, <<"q","w","e","r","t","y">>,
      <<"p","a","s","s","w","o","r","d">>, <<"P","a","s","s","W","o","r","d">>,
      <<"A","D","M","I","N">>, <<"q","u","i","t">>,
      <<"A","b","c","1","2","3","!","@">>,
      <<"A","b","c","1","2","3","!","@","#","$","%","^">>,
      <<"M","y","Q","W","E","R","T","Y","p","a","s","s","1","!">>,
      <<"A","!","U+0663">>, <<"A","!","U+00B2">>, <<"A","1","-">>,
      <<"U+00C9","!","1">> }

FillChars == {"x", "7"}

Totals == {0, 7, 8, 11, 12, 15, 16}

BSeq(S, n) == UNION {[1..k -> S] : k \in 0..n}

Cores == BSeq(Alphabet, MaxCore) \cup Literals

PadTo(core, c, t) ==
    IF Len(core) >= t THEN core ELSE core \o [i \in 1..(t - Len(core)) |-> c]

\* the passwords padded to the long lengths start with at most one character
LongCores == BSeq(Alphabet, 1) \cup {<<"A", "1", "!">>}

Passwords ==
    {PadTo(core, c, t) : core \in Cores, c \in FillChars, t \in Totals}
      \cup {PadTo(core, c, t) : core \in LongCores, c \in FillChars,
                                t \in {LongLen - 1, LongLen}}

quit == <<"q","u","i","t">>

(***************************************************************************)
(* The state machine: main()'s loop over the two entry points.             *)
(***************************************************************************)
NoChecker ==
    /\ password = <<>>
    /\ length = 0
    /\ score = 0
    /\ feedback = <<>>
    /\ common_passwords = {}
    /\ results = <<>>
    /\ quick = "none"

Init ==
    /\ file \in FileStates
    /\ pc = "idle"
    /\ exc = "none"
    /\ NoChecker

\* input() returns p and PasswordStrengthChecker(p) is constructed: __init__
Construct ==
    /\ pc = "idle"
    /\ \E p \in Passwords :
        /\ lower(p) # quit
        /\ password' = p
        /\ length' = Len(p)
        /\ score' = 0
        /\ feedback' = <<>>
        /\ LET loaded == load_common_passwords(file)
           IN  /\ common_passwords' = loaded.ret
               /\ exc' = loaded.raised
               /\ pc' = IF loaded.raised = "none" THEN "ready" ELSE "crashed"
    /\ UNCHANGED <<file, results, quick>>

\* input() returns 'quit' in any case of letters: the loop ends
Quit ==
    /\ pc = "idle"
    /\ \E p \in Passwords : lower(p) = quit
    /\ pc' = "exited"
    /\ UNCHANGED <<file, password, length, score, feedback, common_passwords,
                   results, quick, exc>>

\* one call of evaluate() on the checker.  The "feedback" of every dict it
\* returns is the list self.feedback itself, not a copy: results keeps the
\* other entries, and the feedback a returned dict shows is the variable
\* feedback.  ("time_taken", a clock reading, is left out.)
Evaluate ==
    /\ pc = "ready"
    /\ Len(results) < MaxEvals
    /\ LET cl == check_length(length)
           ct == check_character_types(password)
           cp == check_common_patterns(password)
           cc == check_common_password(password, common_passwords)
           entropy == calculate_entropy(password, length)
           sc == score + cl.ret + ct.ret + cp.ret + cc.ret
                   + Min(int_entropy_div_20(entropy), 5)
           fb == feedback \o cl.fb \o ct.fb \o cp.fb \o cc.fb
           idx == rating_index(sc)
       IN  /\ score' = sc
           /\ feedback' = fb
           /\ IF list_index_raises(idx)
              THEN /\ pc' = "crashed"
                   /\ exc' = "IndexError"
                   /\ UNCHANGED results
              ELSE IF pow_overflows(entropy)
              THEN /\ pc' = "crashed"
                   /\ exc' = "OverflowError"
                   /\ UNCHANGED results
              ELSE /\ results' = Append(results,
                         [rating |-> list_index(idx),
                          score |-> sc,
                          entropy |-> round_entropy_1(entropy),
                          crack_time |-> estimate_crack_time(entropy)])
                   /\ UNCHANGED <<pc, exc>>
    /\ UNCHANGED <<file, password, length, common_passwords, quick>>

\* simple_strength_check(password), the second entry point: it reads the
\* password alone
SimpleStrengthCheck ==
    /\ pc = "ready"
    /\ quick = "none"
    /\ quick' = simple_strength_check(password)
    /\ UNCHANGED <<file, pc, password, length, score, feedback,
                   common_passwords, results, exc>>

\* both results are printed and the loop takes the next password: the
\* checker object is dropped
NextPassword ==
    /\ pc = "ready"
    /\ results # <<>>
    /\ quick # "none"
    /\ pc' = "idle"
    /\ password' = <<>>
    /\ length' = 0
    /\ score' = 0
    /\ feedback' = <<>>
    /\ common_passwords' = {}
    /\ results' = <<>>
    /\ quick' = "none"
    /\ UNCHANGED <<file, exc>>

Next ==
    \/ Construct
    \/ Quit
    \/ Evaluate
    \/ SimpleStrengthCheck
    \/ NextPassword

Spec == Init /\ [][Next]_vars


(***************************************************************************)
(* Properties.                                                             *)
(***************************************************************************)
Clamp(x, lo, hi) == IF x < lo THEN lo ELSE IF x > hi THEN hi ELSE x

Count(seq, x) == Cardinality({i \in 1..Len(seq) : seq[i] = x})

Evaluated == {i \in 1..Len(results) : TRUE}

TheWordPassword == <<"p","a","s","s","w","o","r","d">>

\* C1: every rating returned by evaluate() is
\* rating_table[clamp(floor(score / 3), 0, 4)] of the score returned with it,
\* so a negative score is rated "Very Weak".
C1_RatingIsClampedTable ==
    \A i \in Evaluated :
        results[i].rating = rating[Clamp(results[i].score \div 3, 0, 4) + 1]

\* C2: evaluate() never raises, whatever the password: estimate_crack_time is
\* defined for every entropy calculate_entropy produces.
C2_EvaluateNeverRaises == exc \notin {"OverflowError", "IndexError"}

\* C3: all evaluate() calls on one checker return the same rating, score,
\* entropy and crack_time (and feedback: the dicts returned share one list).
C3_ReEvaluationIdentical ==
    \A i, j \in Evaluated : results[i] = results[j]

\* C4: when common_passwords.txt cannot be opened, because it is missing or
\* because it is unreadable, construction completes without an error and the
\* checker holds the fallback set.
C4_FallbackWhenUnopenable ==
    (file.kind \in {"missing", "unreadable"} /\ pc \in {"ready", "crashed"})
        => (exc # "PermissionError" /\ common_passwords = Fallback)

\* C5 as claimed: "password" against the fallback set gets the common-password
\* penalty, no pattern penalty, and the rating "Very Weak".
C5_PasswordIsVeryWeak ==
    (password = TheWordPassword /\ common_passwords = Fallback) =>
        /\ Count(feedback, FbCommon) = Len(results)
        /\ Count(feedback, FbPattern) = 0
        /\ \A i \in Evaluated : results[i].rating = "Very Weak"

\* C5 as amended: "password" against the fallback set gets the common-password
\* penalty and no pattern penalty in every evaluation, each evaluation adds
\* 2 + 1 + 0 - 2 + 2 = 3 to the score, and the i-th evaluation on a checker
\* returns the score 3 * i and the rating rating[min(i, 4)]: the first one
\* returns 3 and "Weak".
C5_PasswordIsWeak ==
    (password = TheWordPassword /\ common_passwords = Fallback) =>
        /\ Count(feedback, FbCommon) = Len(results)
        /\ Count(feedback, FbPattern) = 0
        /\ \A i \in Evaluated :
            /\ results[i].score = 3 * i
            /\ results[i].rating = rating[Min(i, 4) + 1]
            /\ (i = 1 => results[i].rating = "Weak")

\* C5's case: evaluate() has returned for "password" with the fallback set.
C5_Witness ==
    /\ password = TheWordPassword
    /\ common_passwords = Fallback
    /\ results # <<>>

SubScoreSum ==
    check_length(length).ret + check_character_types(password).ret
      + check_common_patterns(password).ret
      + check_common_password(password, common_passwords).ret
      + Min(int_entropy_div_20(calculate_entropy(password, length)), 5)

\* C6: every score evaluate() returns is the sum of the four sub-scores and the
\* entropy bonus of the password, an integer of -4..17.
C6_ScoreIsSumOfSubScores ==
    \A i \in Evaluated :
        results[i].score = SubScoreSum /\ results[i].score \in -4..17

\* the quick rule of the specification, over its ASCII-only character classes
QuickRule(p) ==
    IF \/ Len(p) < 8
       \/ Range(p) \cap AsciiLower = {}
       \/ Range(p) \cap AsciiUpper = {}
       \/ Range(p) \cap AsciiDigit = {}
       \/ Range(p) \cap QuickSpecial = {}
    THEN "Weak"
    ELSE IF Len(p) <= 11 THEN "Moderate" ELSE "Strong"

\* C7: simple_strength_check returns "Weak" when the password is shorter than 8
\* or lacks a lowercase letter, an uppercase letter, a digit or a special
\* character, else "Moderate" up to length 11 and "Strong" from 12.
C7_QuickRule == quick # "none" => quick = QuickRule(password)

\* C8: with a word list loaded, evaluate() reports "This password is too
\* common!" exactly when the lower-cased password is the stripped, lower-cased
\* form of a line of the list.
C8_CommonCheckIgnoresCase ==
    (file.kind = "readable" /\ results # <<>>) =>
        (Count(feedback, FbCommon) > 0
            <=> lower(password) \in
                    {lower(strip(file.lines[k])) : k \in 1..Len(file.lines)})

\* C9: the entropy returned is 0 exactly when the password holds no ASCII
\* lowercase letter, uppercase letter, digit or punctuation character: a
\* non-ASCII character counts toward no class.
C9_EntropyZeroIffNoAsciiClass ==
    \A i \in Evaluated :
        results[i].entropy = 0 <=>
            Range(password) \cap
                (AsciiLower \cup AsciiUpper \cup AsciiDigit \cup Punctuation) = {}

\* C10: when the quick classifier answers "Moderate" or "Strong", the detailed
\* character-class sub-score is 4, the length sub-score is at least 2, and no
\* evaluation's feedback asks for a mix of classes or calls the password short
\* (each one reports a length of at least 8).
C10_QuickImpliesDetailed ==
    quick \in {"Moderate", "Strong"} =>
        /\ check_character_types(password).ret = 4
        /\ check_length(length).ret >= 2
        /\ Count(feedback, FbMix) = 0
        /\ Count(feedback, FbTooShort) = 0
        /\ Count(feedback, FbOkay) + Count(feedback, FbGood)
             + Count(feedback, FbExcellent) >= Len(results)

\* C10's case: both entry points have answered and the quick one said "Moderate".
C10_Witness == quick = "Moderate" /\ results # <<>>

====
